---------------------------- MODULE Spec2Model ----------------------------
(***************************************************************************)
(* A model of ciftify/config.py: the functions that search the environment *)
(* for software dependencies and configuration.                            *)
(*                                                                         *)
(* Text is a sequence of tokens.  The characters the code operates on are  *)
(* tokens of their own: "/" (the path separator), LF (os.linesep) and IND  *)
(* (the four blanks that follow os.linesep in the report templates).       *)
(* Every other token is a run of characters that contains none of these.   *)
(* The str methods the code uses (split, join, replace) and the os.path    *)
(* functions (dirname, join, abspath) are computed token by token, the way *)
(* CPython 2 computes them character by character.                         *)
(*                                                                         *)
(* The module keeps no state of its own.  The state is the environment     *)
(* the functions read (environment variables, the search path, files, the  *)
(* source-control state of two directories, the host identity) and the     *)
(* outcome of the last call.                                               *)
(***************************************************************************)
EXTENDS Integers, Sequences, FiniteSets, TLC

VARIABLES env, last, stale

vars == <<env, last, stale>>

-----------------------------------------------------------------------------
(* Bounds of the model.                                                    *)

NumDirs == 1      \* distinct non-empty values an environment variable takes
NumNames == 1     \* distinct component names passed to ciftify_version
NumIds == 2       \* distinct values each field of os.uname() takes

-----------------------------------------------------------------------------
(* Text.                                                                   *)

LF == "\n"
IND == "    "
SL == "/"

Min(S) == CHOOSE x \in S : \A y \in S : x <= y
Max(S) == CHOOSE x \in S : \A y \in S : x >= y

Positions(s, tok) == {i \in 1..Len(s) : s[i] = tok}

\* str.split(sep): the pieces between the occurrences of sep; a text
\* without sep (the empty text too) is one piece.
RECURSIVE Split(_, _)
Split(s, sep) ==
    IF Positions(s, sep) = {} THEN <<s>>
    ELSE LET i == Min(Positions(s, sep))
         IN  <<SubSeq(s, 1, i - 1)>> \o Split(SubSeq(s, i + 1, Len(s)), sep)

\* sep.join(parts), sep a text
RECURSIVE Join(_, _)
Join(parts, sep) ==
    IF Len(parts) = 0 THEN <<>>
    ELSE IF Len(parts) = 1 THEN parts[1]
    ELSE parts[1] \o sep \o Join(Tail(parts), sep)

\* parts[:-1]
DropLast(parts) == SubSeq(parts, 1, Len(parts) - 1)

\* str.replace(old, new) for a one-token old
Replace(s, old, new) == [i \in 1..Len(s) |-> IF s[i] = old THEN new ELSE s[i]]

\* str.replace(old, '')
Remove(s, old) == SelectSeq(s, LAMBDA t : t # old)

\* str.rstrip('/')
RECURSIVE RStripSlash(_)
RStripSlash(s) ==
    IF Len(s) > 0 /\ s[Len(s)] = SL THEN RStripSlash(SubSeq(s, 1, Len(s) - 1))
    ELSE s

\* posixpath.dirname
dirname(p) ==
    LET i == IF Positions(p, SL) = {} THEN 0 ELSE Max(Positions(p, SL))
        head == SubSeq(p, 1, i)
    IN  IF head # <<>> /\ \E k \in 1..Len(head) : head[k] # SL
        THEN RStripSlash(head) ELSE head

\* posixpath.join(a, b)
pathjoin(a, b) ==
    IF Len(b) > 0 /\ b[1] = SL THEN b
    ELSE IF a = <<>> \/ a[Len(a)] = SL THEN a \o b
    ELSE a \o <<SL>> \o b

\* the loop of posixpath.normpath over the components
RECURSIVE NormComps(_, _, _)
NormComps(comps, acc, rooted) ==
    IF comps = <<>> THEN acc
    ELSE LET c == Head(comps)
             rest == Tail(comps)
         IN  IF c = <<>> \/ c = <<".">> THEN NormComps(rest, acc, rooted)
             ELSE IF \/ c # <<"..">>
                     \/ (~rooted /\ acc = <<>>)
                     \/ (acc # <<>> /\ acc[Len(acc)] = <<"..">>)
                  THEN NormComps(rest, Append(acc, c), rooted)
             ELSE IF acc # <<>> THEN NormComps(rest, DropLast(acc), rooted)
             ELSE NormComps(rest, acc, rooted)

\* posixpath.normpath
normpath(p) ==
    IF p = <<>> THEN <<".">>
    ELSE LET rooted == p[1] = SL
             double == Len(p) >= 2 /\ p[1] = SL /\ p[2] = SL
                          /\ ~(Len(p) >= 3 /\ p[3] = SL)
             body == Join(NormComps(Split(p, SL), <<>>, rooted), <<SL>>)
             out == IF double THEN <<SL, SL>> \o body
                    ELSE IF rooted THEN <<SL>> \o body ELSE body
         IN  IF out = <<>> THEN <<".">> ELSE out

\* The working directory of the process (os.getcwd()).
Cwd == <<SL, "home", SL, "user">>

\* posixpath.abspath
abspath(p) ==
    IF Len(p) > 0 /\ p[1] = SL THEN normpath(p) ELSE normpath(pathjoin(Cwd, p))

Contains(s, tok) == \E i \in 1..Len(s) : s[i] = tok


-----------------------------------------------------------------------------
(* Values: a Python value that is a str or None, and the way a call ends.  *)

NoneV == [none |-> TRUE, s |-> <<>>]
Some(s) == [none |-> FALSE, s |-> s]

\* A call returns a str, returns None, or raises; log is what it handed to
\* logger.error on the way.
Value(v) == [kind |-> "value", exc |-> "", val |-> v, log |-> <<>>]
NoneOut == [kind |-> "none", exc |-> "", val |-> <<>>, log |-> <<>>]
Raise(exc, msg) == [kind |-> "raise", exc |-> exc, val |-> msg, log |-> <<>>]
WithLog(out, msgs) == [out EXCEPT !.log = msgs \o @]

-----------------------------------------------------------------------------
(* The environment the functions read.                                     *)

EnvVarNames == {"HCP_SCENE_TEMPLATES", "CIFTIFY_DATA", "SUBJECTS_DIR", "HCP_DATA"}

DirPool == << <<SL, "data", SL, "templates">>, <<SL, "scratch", SL, "hcp">>,
              <<"relative", SL, "dir">> >>

\* What an environment variable holds when it is set: the empty string or
\* a directory.
EnvValues == {<<>>} \cup {DirPool[i] : i \in 1..NumDirs}

Tools == {"wb_command", "fsl", "recon-all"}

NamePool == <<"ciftify_recon_all", "cifti_vis_map", "ciftify_peaktable">>

\* The component names handed to ciftify_version.
Names == {NamePool[i] : i \in 1..NumNames}

\* __file__ of the module, and the directory of the package's scripts.
ModuleFile == <<SL, "opt", SL, "ciftify", SL, "ciftify", SL, "config.py">>
BinDir == <<SL, "opt", SL, "ciftify", SL, "bin">>

\* Where an executable lives when it is installed.
ExePath(name) ==
    CASE name = "wb_command" ->
            <<SL, "opt", SL, "workbench", SL, "bin_linux64", SL, "wb_command">>
      [] name = "fsl" -> <<SL, "usr", SL, "share", SL, "fsl", SL, "bin", SL, "fsl">>
      [] name = "recon-all" -> <<SL, "opt", SL, "freesurfer", SL, "bin", SL, "recon-all">>
      [] OTHER -> BinDir \o <<SL, name>>

\* The files the version reports read, and their text.
FsStampFile == <<SL, "opt", SL, "freesurfer", SL, "build-stamp.txt">>
FslVersionFile == <<SL, "usr", SL, "share", SL, "fsl", SL, "etc", SL, "fslversion">>
StampFiles == {FsStampFile, FslVersionFile}

FileText(path) ==
    IF path = FsStampFile THEN <<"freesurfer-Linux-centos6_x86_64-stable-pub-v6.0.0", LF>>
    ELSE <<"5.0.10", LF>>

\* The directories `git log` is run in, and what `git log` prints there:
\* nothing (git missing, or not a checkout), one line per commit (a
\* configured one-line format), the default format with an ordinary commit
\* on top, or the default format with a merge commit on top.
GitDirs == {dirname(ModuleFile), BinDir}
GitKinds == {"fail", "oneline", "commit", "merge"}

IdPool == <<"a", "b", "c", "d">>
Ids == {IdPool[i] : i \in 1..NumIds}

\* os.uname(): (sysname, nodename, release, version, machine)
Unames == [1..5 -> Ids]

BaseUname == [i \in 1..5 |-> IdPool[1]]

\* An environment with nothing set and nothing installed but `which` and
\* `head`.
BaseEnv ==
    [vars |-> [n \in EnvVarNames |-> NoneV],
     whichOK |-> TRUE,
     onPath |-> {},
     files |-> {},
     headOK |-> TRUE,
     git |-> [d \in GitDirs |-> "fail"],
     tracked |-> {},
     uname |-> BaseUname]

-----------------------------------------------------------------------------
(* External processes.  subprocess.check_output(cmd, shell=True) runs cmd  *)
(* under /bin/sh, returns what it wrote to its standard output, and raises *)
(* CalledProcessError when the shell's exit status is not 0.               *)

Proc(status, out) == [status |-> status, out |-> out]

check_output(p) ==
    IF p.status # 0 THEN Raise("CalledProcessError", <<>>) ELSE Value(p.out)

\* `which name`: the first match on the search path and a line separator,
\* status 1 without a match, status 127 from the shell when there is no
\* `which` to run.
which(e, name) ==
    IF ~e.whichOK THEN Proc(127, <<>>)
    ELSE IF name \in e.onPath THEN Proc(0, ExePath(name) \o <<LF>>)
    ELSE Proc(1, <<>>)

os_getenv(e, name) == e.vars[name]

-----------------------------------------------------------------------------
(* The find_* functions.                                                   *)

find_workbench_unguarded(e) == check_output(which(e, "wb_command"))

find_workbench(e) ==
    LET r == check_output(which(e, "wb_command"))
    IN  IF r.kind = "raise" THEN NoneOut ELSE Value(r.val)

\* The try block of find_fsl and find_freesurfer.
BinFolder(e, exe) ==
    LET r == check_output(which(e, exe))
    IN  IF r.kind = "raise" THEN NoneOut
        ELSE Value(Join(DropLast(Split(r.val, SL)), <<SL>>))

find_fsl(e) == BinFolder(e, "fsl")

find_freesurfer(e) == BinFolder(e, "recon-all")

PackagedDefault(rel) == abspath(pathjoin(dirname(ModuleFile), rel))

SceneTemplatesRel == <<"..", SL, "data", SL, "scene_templates">>
DataRel == <<"..", SL, "data">>

find_scene_templates_falsy(e) ==
    LET v == os_getenv(e, "HCP_SCENE_TEMPLATES")
    IN  IF v.none \/ v.s = <<>> THEN Value(PackagedDefault(SceneTemplatesRel))
        ELSE Value(v.s)

find_scene_templates(e) ==
    LET v == os_getenv(e, "HCP_SCENE_TEMPLATES")
    IN  IF v.none THEN Value(PackagedDefault(SceneTemplatesRel)) ELSE Value(v.s)

find_ciftify_global(e) ==
    LET v == os_getenv(e, "CIFTIFY_DATA")
    IN  IF v.none THEN Value(PackagedDefault(DataRel)) ELSE Value(v.s)

find_HCP_S900_GroupAvg(e) ==
    Value(pathjoin(find_ciftify_global(e).val, <<"HCP_S900_GroupAvg_v1">>))

\* find_freesurfer_data and find_hcp_data
EnvPath(e, name) ==
    LET v == os_getenv(e, name) IN IF v.none THEN NoneOut ELSE Value(v.s)

find_freesurfer_data(e) == EnvPath(e, "SUBJECTS_DIR")

find_hcp_data(e) == EnvPath(e, "HCP_DATA")

-----------------------------------------------------------------------------
(* The version reports of the external tools.                              *)

\* '{}    '.format(os.linesep)
Sep == <<LF, IND>>

\* What `wb_command` prints when it is run without arguments.
WbBanner ==
    <<"Connectome Workbench", LF, "Version: 1.2.3", LF,
      "Commit Date: 2016-08-23", LF, "Operating System: Linux", LF>>

\* The shell running `wb_command`: status 127 when it is not on the path.
run_wb_command(e) ==
    IF "wb_command" \in e.onPath THEN Proc(0, WbBanner) ELSE Proc(127, <<>>)

\* open(path, "r").read()
ReadFile(e, path) ==
    IF path \in e.files THEN Value(FileText(path)) ELSE Raise("IOError", <<>>)

wb_command_version(e) ==
    LET wb_path == find_workbench(e)
        wb_help == check_output(run_wb_command(e))
        wb_v == Join(SubSeq(Split(wb_help.val, LF), 1,
                            IF Len(Split(wb_help.val, LF)) < 3
                            THEN Len(Split(wb_help.val, LF)) ELSE 3), Sep)
    IN  IF wb_path.kind = "none"
        THEN Raise("EnvironmentError",
                   <<"wb_command", " not found. Please check that it is installed.">>)
        ELSE IF wb_help.kind = "raise" THEN wb_help
        ELSE Value(<<"wb_command: ">> \o Sep \o <<"Path: ">> \o wb_path.val
                       \o <<IND>> \o wb_v)

freesurfer_version_unguarded(e) ==
    LET fs_path == find_freesurfer(e)
        fs_buildstamp == pathjoin(dirname(fs_path.val), <<"build-stamp.txt">>)
        text_file == ReadFile(e, fs_buildstamp)
        bstamp == Remove(text_file.val, LF)
    IN  IF fs_path.kind = "none"
        THEN Raise("EnvironmentError",
                   <<"Freesurfer", " cannot be found. Please check that it is installed.">>)
        ELSE IF text_file.kind = "raise" THEN text_file
        ELSE Value(<<"freesurfer:">> \o Sep \o <<"Path: ">> \o fs_path.val
                       \o Sep \o <<"Build Stamp: ">> \o bstamp)

freesurfer_version(e) ==
    LET fs_path == find_freesurfer(e)
        fs_buildstamp == pathjoin(dirname(fs_path.val), <<"build-stamp.txt">>)
        text_file == ReadFile(e, fs_buildstamp)
        bstamp == Remove(text_file.val, LF)
    IN  IF fs_path.kind = "none"
        THEN Raise("EnvironmentError",
                   <<"Freesurfer", " cannot be found. Please check that it is installed.">>)
        ELSE IF text_file.kind = "raise"
        THEN Value(<<"freesurfer build information ", "not found", ".">>)
        ELSE Value(<<"freesurfer:">> \o Sep \o <<"Path: ">> \o fs_path.val
                       \o Sep \o <<"Build Stamp: ">> \o bstamp)

fsl_version_unchecked(e) ==
    LET fsl_path == find_fsl(e)
        fsl_buildstamp == pathjoin(pathjoin(dirname(fsl_path.val), <<"etc">>),
                                   <<"fslversion">>)
        text_file == ReadFile(e, fsl_buildstamp)
        bstamp == Remove(text_file.val, LF)
    IN  IF text_file.kind = "raise"
        THEN Value(<<"FSL build information ", "not found", ".">>)
        ELSE Value(<<"FSL:">> \o Sep \o <<"Path: ">> \o fsl_path.val
                       \o Sep \o <<"Version: ">> \o bstamp)

fsl_version(e) ==
    LET fsl_path == find_fsl(e)
        fsl_buildstamp == pathjoin(pathjoin(dirname(fsl_path.val), <<"etc">>),
                                   <<"fslversion">>)
        text_file == ReadFile(e, fsl_buildstamp)
        bstamp == Remove(text_file.val, LF)
    IN  IF fsl_path.kind = "none"
        THEN Raise("EnvironmentError",
                   <<"FSL", " not found. Please check that it is installed">>)
        ELSE IF text_file.kind = "raise"
        THEN Value(<<"FSL build information ", "not found", ".">>)
        ELSE Value(<<"FSL:">> \o Sep \o <<"Path: ">> \o fsl_path.val
                       \o Sep \o <<"Version: ">> \o bstamp)

-----------------------------------------------------------------------------
(* ciftify_version.                                                        *)

\* The lines `head` lets through.
HeadLines == 10

\* head: the text up to the HeadLines-th line separator.
head_cmd(s) ==
    LET ends == Positions(s, LF)
        upto == {i \in ends : Cardinality({j \in ends : j <= i}) = HeadLines}
    IN  IF upto = {} THEN s ELSE SubSeq(s, 1, Min(upto))

\* What `git log` prints for a history of the given kind whose newest
\* commits are h1 and h2 (a one-line history has the one commit h1).
GitText(kind, h1, h2) ==
    CASE kind = "oneline" -> <<h1, " Initial commit", LF>>
      [] kind = "commit" ->
            <<"commit", " ", h1, LF, "Author: A <a@x.org>", LF,
              "Date:   Mon Aug 22 2016", LF, LF, IND, "Update the templates", LF, LF,
              "commit", " ", h2, LF, "Author: A <a@x.org>", LF,
              "Date:   Fri Aug 19 2016", LF, LF, IND, "Initial commit", LF>>
      [] kind = "merge" ->
            <<"commit", " ", h1, LF, "Merge: 5d6e7f8 9a0b1c2", LF,
              "Author: A <a@x.org>", LF, "Date:   Mon Aug 22 2016", LF, LF,
              IND, "Merge the templates", LF, LF,
              "commit", " ", h2, LF, "Author: A <a@x.org>", LF,
              "Date:   Fri Aug 19 2016", LF, LF, IND, "Initial commit", LF>>
      [] OTHER -> <<>>

\* The standard output of `git log` run in directory d.
git_log(e, d) ==
    IF d \in GitDirs THEN GitText(e.git[d], "1a2b3c4", "5d6e7f8") ELSE <<>>

\* The standard output of `git log --follow name` run in directory d; the
\* scripts live in BinDir, and git prints nothing for a file that is not
\* there or has no history.
git_log_follow(e, d, name) ==
    IF d = BinDir /\ name \in e.tracked
    THEN GitText(e.git[d], "7e8f9a0", "5d6e7f8") ELSE <<>>

\* The shell running `cd d; <git command> | head`: the status of a pipeline
\* is the status of its last command, head.
PipeHead(e, gitOut) ==
    IF e.headOK THEN Proc(0, head_cmd(gitOut)) ELSE Proc(127, <<>>)

\* The commit lines taken from the captured log: lines 0 and 2, an
\* IndexError when there is no line 2.
CommitLines(text) ==
    LET lines == Split(text, LF)
    IN  IF Len(lines) < 3 THEN Raise("IndexError", <<>>)
        ELSE Value(Replace(lines[1], "commit", "Commit:") \o Sep \o lines[3])

LogCannotFind == "Cannot find ciftify file, finding default version information"
LogGitFailed == "Something went wrong while retrieving git log. Returning ciftify path only."
LogNoHistory == "Cannot retrieve commit history. Returning ciftify commit info only."

\* Lines 181-212: the report for the file dir_ciftify, with the sub-block
\* for file_name when it is set.
Report(e, dir_ciftify, file_name) ==
    LET ciftify_path == dirname(dir_ciftify)
        base_log == check_output(PipeHead(e, git_log(e, ciftify_path)))
        base == CommitLines(base_log.val)
        info == <<"Ciftify:">> \o Sep \o <<"Path: ">> \o ciftify_path
                    \o Sep \o base.val
        file_log == check_output(PipeHead(e,
                        git_log_follow(e, ciftify_path, file_name.s[1])))
        sub == CommitLines(file_log.val)
    IN  IF base_log.kind = "raise"
        THEN WithLog(Value(<<"Ciftify:", LF, "Path: ">> \o ciftify_path),
                     <<LogGitFailed>>)
        ELSE IF base.kind = "raise" THEN base
        ELSE IF file_name.none \/ file_name.s = <<>> THEN Value(info)
        ELSE IF file_log.kind = "raise" THEN WithLog(Value(info), <<LogNoHistory>>)
        ELSE IF sub.kind = "raise" THEN sub
        ELSE Value(info \o <<LF, "Last commit for ">> \o file_name.s \o <<":">>
                       \o Sep \o sub.val)

ciftify_version_keeps_name(e, file_name) ==
    LET found == check_output(which(e, file_name.s[1]))
    IN  IF file_name.none THEN Report(e, ModuleFile, NoneV)
        ELSE IF found.kind = "raise"
        THEN WithLog(Report(e, ModuleFile, file_name), <<LogCannotFind>>)
        ELSE Report(e, found.val, file_name)

ciftify_version(e, file_name) ==
    LET found == check_output(which(e, file_name.s[1]))
    IN  IF file_name.none THEN Report(e, ModuleFile, NoneV)
        ELSE IF found.kind = "raise"
        THEN WithLog(Report(e, ModuleFile, NoneV), <<LogCannotFind>>)
        ELSE Report(e, found.val, file_name)

-----------------------------------------------------------------------------
(* system_info.                                                            *)

system_info_swapped(e) ==
    LET sys_info == e.uname
    IN  Value(<<"System Info:">> \o Sep \o <<"OS: ", sys_info[1]>>
                  \o Sep \o <<"Hostname: ", sys_info[2]>>
                  \o Sep \o <<"Release: ", sys_info[4]>>
                  \o Sep \o <<"Version: ", sys_info[3]>>
                  \o Sep \o <<"Machine: ", sys_info[5]>>)

system_info(e) ==
    LET sys_info == e.uname
    IN  Value(<<"System Info:">> \o Sep \o <<"OS: ", sys_info[1]>>
                  \o Sep \o <<"Hostname: ", sys_info[2]>>
                  \o Sep \o <<"Release: ", sys_info[3]>>
                  \o Sep \o <<"Version: ", sys_info[4]>>
                  \o Sep \o <<"Machine: ", sys_info[5]>>)

-----------------------------------------------------------------------------
(* Steps.  A call leaves the environment as it found it and records how it *)
(* ended; the environment changes between calls.                           *)

Called(op, arg, out) ==
    /\ last' = [op |-> op, arg |-> arg, out |-> out,
                again |-> last.op = op /\ last.arg = arg /\ ~stale]
    /\ stale' = FALSE
    /\ UNCHANGED env

Changed(e) ==
    /\ e # env
    /\ env' = e
    /\ stale' = TRUE
    /\ UNCHANGED last

Call_find_workbench == Called("find_workbench", NoneV, find_workbench(env))
Call_find_fsl == Called("find_fsl", NoneV, find_fsl(env))
Call_find_freesurfer == Called("find_freesurfer", NoneV, find_freesurfer(env))
Call_find_scene_templates ==
    Called("find_scene_templates", NoneV, find_scene_templates(env))
Call_find_ciftify_global_caching ==
    /\ last' = [op |-> "find_ciftify_global", arg |-> NoneV,
                out |-> find_ciftify_global(env),
                again |-> last.op = "find_ciftify_global" /\ ~stale]
    /\ stale' = FALSE
    /\ env' = [env EXCEPT !.vars["CIFTIFY_DATA"] =
                              Some(find_ciftify_global(env).val)]

Call_find_ciftify_global ==
    Called("find_ciftify_global", NoneV, find_ciftify_global(env))
Call_find_HCP_S900_GroupAvg ==
    Called("find_HCP_S900_GroupAvg", NoneV, find_HCP_S900_GroupAvg(env))
Call_find_freesurfer_data ==
    Called("find_freesurfer_data", NoneV, find_freesurfer_data(env))
Call_find_hcp_data == Called("find_hcp_data", NoneV, find_hcp_data(env))

Call_wb_command_version ==
    Called("wb_command_version", NoneV, wb_command_version(env))
Call_freesurfer_version ==
    Called("freesurfer_version", NoneV, freesurfer_version(env))
Call_fsl_version == Called("fsl_version", NoneV, fsl_version(env))

Call_ciftify_version ==
    \E a \in {NoneV} \cup {Some(<<n>>) : n \in Names} :
        Called("ciftify_version", a, ciftify_version(env, a))

Call_system_info == Called("system_info", NoneV, system_info(env))

\* A variable of the environment is set or unset.
SetEnvVar ==
    \E n \in EnvVarNames, v \in {NoneV} \cup {Some(s) : s \in EnvValues} :
        Changed([env EXCEPT !.vars[n] = v])

Toggle(S, x) == IF x \in S THEN S \ {x} ELSE S \cup {x}

\* A tool appears on, or disappears from, the search path; so does `which`.
SetSearchPath ==
    \/ \E x \in Tools : Changed([env EXCEPT !.onPath = Toggle(@, x)])
    \/ Changed([env EXCEPT !.whichOK = ~@])

\* A build-stamp or version file appears or disappears.
SetFile == \E f \in StampFiles : Changed([env EXCEPT !.files = Toggle(@, f)])

\* A script of the package appears on, or disappears from, the search path;
\* so does `which`.
SetComponent ==
    \/ \E x \in Names : Changed([env EXCEPT !.onPath = Toggle(@, x)])
    \/ Changed([env EXCEPT !.whichOK = ~@])

\* The source-control state changes: what `git log` prints in a directory,
\* which scripts have a history, whether there is a `head` to pipe into.
SetRepo ==
    \/ \E d \in GitDirs, k \in GitKinds : Changed([env EXCEPT !.git[d] = k])
    \/ \E x \in Names : Changed([env EXCEPT !.tracked = Toggle(@, x)])
    \/ Changed([env EXCEPT !.headOK = ~@])

\* The host identity changes.
SetHost == \E u \in Unames : Changed([env EXCEPT !.uname = u])

NoCall == [op |-> "none", arg |-> NoneV, out |-> NoneOut, again |-> FALSE]

Init ==
    /\ env = BaseEnv
    /\ last = NoCall
    /\ stale = FALSE

CallFind ==
    \/ Call_find_workbench
    \/ Call_find_fsl
    \/ Call_find_freesurfer
    \/ Call_find_scene_templates
    \/ Call_find_ciftify_global
    \/ Call_find_HCP_S900_GroupAvg
    \/ Call_find_freesurfer_data
    \/ Call_find_hcp_data

CallVersion ==
    \/ Call_wb_command_version
    \/ Call_freesurfer_version
    \/ Call_fsl_version

\* The path resolver: the find_* functions under a changing search path and
\* changing environment variables.
NextFind == CallFind \/ SetEnvVar \/ SetSearchPath

SpecFind == Init /\ [][NextFind]_vars

\* The version reporter: the three tool reports under a changing search
\* path and changing build-stamp files.
NextVersion == CallVersion \/ SetSearchPath \/ SetFile

SpecVersion == Init /\ [][NextVersion]_vars

\* The self-introspection reporter: ciftify_version under a changing search
\* path and a changing source-control state.
NextSelf == Call_ciftify_version \/ SetComponent \/ SetRepo

SpecSelf == Init /\ [][NextSelf]_vars

\* The system info reporter under a changing host identity.
NextSys == Call_system_info \/ SetHost

SpecSys == Init /\ [][NextSys]_vars

\* Environments of every kind the operations tell apart: nothing installed,
\* everything installed and under source control, the tools installed
\* without their build-stamp files, the overrides set, no `head`.
FullEnv ==
    [vars |-> [n \in EnvVarNames |-> Some(DirPool[1])],
     whichOK |-> TRUE,
     onPath |-> Tools \cup Names,
     files |-> StampFiles,
     headOK |-> TRUE,
     git |-> [d \in GitDirs |-> "commit"],
     tracked |-> Names,
     uname |-> [i \in 1..5 |-> IdPool[NumIds]]]

SampleEnvs ==
    {BaseEnv, FullEnv,
     [FullEnv EXCEPT !.files = {}, !.tracked = {}],
     [FullEnv EXCEPT !.vars = [n \in EnvVarNames |-> Some(<<>>)], !.headOK = FALSE],
     [FullEnv EXCEPT !.whichOK = FALSE, !.git = [d \in GitDirs |-> "merge"]],
     [BaseEnv EXCEPT !.onPath = Names, !.git = [d \in GitDirs |-> "oneline"]]}

\* The environment is replaced by another.
Reconfigure == \E e \in SampleEnvs : Changed(e)

\* Every operation of the module, called in any order, between changes of
\* the environment.
Next ==
    \/ CallFind
    \/ CallVersion
    \/ Call_ciftify_version
    \/ Call_system_info
    \/ Reconfigure

Spec == Init /\ [][Next]_vars

-----------------------------------------------------------------------------
(* Properties.  The outcome in `last` is that of a call made in the        *)
(* environment `env` whenever stale is FALSE.                               *)

FindToolOps == {"find_workbench", "find_fsl", "find_freesurfer"}
VersionOps == {"wb_command_version", "freesurfer_version", "fsl_version"}

\* The executable an operation probes for.
ProbedExe(op) ==
    CASE op \in {"find_workbench", "wb_command_version"} -> "wb_command"
      [] op \in {"find_fsl", "fsl_version"} -> "fsl"
      [] OTHER -> "recon-all"

\* The probe finds the executable: there is a `which` and it is on the path.
Located(e, exe) == e.whichOK /\ exe \in e.onPath

Fresh(ops) == last.op \in ops /\ ~stale

\* C1: find_workbench, find_fsl and find_freesurfer return None, and raise
\* nothing, whenever the probed executable is not on the search path or
\* the `which` probe fails or cannot be run.
C1_AbsentIsNone ==
    (Fresh(FindToolOps) /\ ~Located(env, ProbedExe(last.op)))
        => last.out = NoneOut

C1_Witness ==
    /\ Fresh({"find_workbench"})
    /\ ~env.whichOK
    /\ "wb_command" \in env.onPath
    /\ last.out.kind = "none"

\* C2: when the probed executable is on the search path, find_workbench
\* returns a path whose last component is exactly wb_command, find_fsl and
\* find_freesurfer return exactly the directory of the executable, and the
\* value holds no line separator.
C2_CleanPath ==
    (Fresh(FindToolOps) /\ Located(env, ProbedExe(last.op)))
        => /\ last.out.kind = "value"
           /\ ~Contains(last.out.val, LF)
           /\ IF last.op = "find_workbench"
              THEN LET comps == Split(last.out.val, SL)
                   IN  comps[Len(comps)] = <<"wb_command">>
              ELSE last.out.val \o <<SL, ProbedExe(last.op)>>
                       = ExePath(ProbedExe(last.op))

OverrideOps == {"find_scene_templates", "find_ciftify_global"}

OverrideVar(op) ==
    IF op = "find_scene_templates" THEN "HCP_SCENE_TEMPLATES" ELSE "CIFTIFY_DATA"

\* The packaged defaults beside the installed package /opt/ciftify/ciftify.
DefaultDir(op) ==
    IF op = "find_scene_templates"
    THEN <<SL, "opt", SL, "ciftify", SL, "data", SL, "scene_templates">>
    ELSE <<SL, "opt", SL, "ciftify", SL, "data">>

\* C3 as stated: a non-empty override is returned as it is; an unset or
\* empty override gives the packaged default; the result is never absent
\* and never the empty string.
C3_EmptyOverrideGivesDefault ==
    Fresh(OverrideOps)
        => LET v == env.vars[OverrideVar(last.op)]
           IN  /\ last.out.kind = "value"
               /\ last.out.val # <<>>
               /\ last.out.val = IF ~v.none /\ v.s # <<>> THEN v.s
                                 ELSE DefaultDir(last.op)

\* C3, amended: an override that is set, to the empty string too, is
\* returned as it is; only an unset override gives the packaged default;
\* the result is never absent.
C3_SetOverrideVerbatim ==
    Fresh(OverrideOps)
        => LET v == env.vars[OverrideVar(last.op)]
           IN  /\ last.out.kind = "value"
               /\ last.out.val = IF ~v.none THEN v.s ELSE DefaultDir(last.op)

C3_Witness ==
    /\ Fresh({"find_scene_templates"})
    /\ env.vars["HCP_SCENE_TEMPLATES"] = Some(<<>>)
    /\ last.out = Value(<<>>)

\* The name each report uses for its tool.
ToolWord(op) ==
    CASE op = "wb_command_version" -> "wb_command"
      [] op = "freesurfer_version" -> "Freesurfer"
      [] OTHER -> "FSL"

\* C4: a version report whose tool is not found raises EnvironmentError
\* with a message that names the tool, and returns no report.
C4_MissingToolRaises ==
    (Fresh(VersionOps) /\ ~Located(env, ProbedExe(last.op)))
        => /\ last.out.kind = "raise"
           /\ last.out.exc = "EnvironmentError"
           /\ Contains(last.out.val, ToolWord(last.op))

C4_Witness ==
    /\ Fresh({"fsl_version"})
    /\ env.whichOK
    /\ "fsl" \notin env.onPath
    /\ last.out.kind = "raise"

\* The build-stamp / version file of a located tool.
StampOf(op) == IF op = "freesurfer_version" THEN FsStampFile ELSE FslVersionFile

\* C5: freesurfer_version and fsl_version, with the tool located and its
\* build-stamp file missing, return a text with the phrase "not found" and
\* raise nothing; the full report, with the path and the file's text, is
\* returned only when the file was read.
C5_MissingStampDegrades ==
    (Fresh({"freesurfer_version", "fsl_version"})
            /\ Located(env, ProbedExe(last.op)))
        => /\ last.out.kind = "value"
           /\ StampOf(last.op) \notin env.files
                 => Contains(last.out.val, "not found")
           /\ Contains(last.out.val, "Path: ")
                 => /\ StampOf(last.op) \in env.files
                    /\ Contains(last.out.val, FileText(StampOf(last.op))[1])
                    /\ ~Contains(last.out.val, "not found")

C5_Witness ==
    /\ Fresh({"freesurfer_version"})
    /\ Located(env, "recon-all")
    /\ FsStampFile \notin env.files
    /\ Contains(last.out.val, "not found")

ModuleDir == <<SL, "opt", SL, "ciftify", SL, "ciftify">>

\* The directory ciftify_version reports on: that of the component when
\* one is named and found, the module's otherwise.
Resolved == ~last.arg.none /\ Located(env, last.arg.s[1])
ReportDir == IF Resolved THEN BinDir ELSE ModuleDir

\* C6: when the `git log` query fails or prints too little, ciftify_version
\* raises nothing, logs, and returns the header and the path only.
C6_GitFailureDegrades ==
    (Fresh({"ciftify_version"}) /\ env.git[ReportDir] \in {"fail", "oneline"})
        => /\ last.out.kind = "value"
           /\ Len(Split(last.out.val, LF)) = 2
           /\ Contains(last.out.val, "Ciftify:")
           /\ Contains(last.out.val, "Path: ")
           /\ last.out.log # <<>>

\* C7: for a component name that cannot be resolved on the search path,
\* ciftify_version(name) logs a message and ends exactly as the call
\* without an argument ends in the same environment, without a
\* "Last commit for" sub-block.
C7_UnresolvedNameIsDefault ==
    (Fresh({"ciftify_version"}) /\ ~last.arg.none /\ ~Resolved)
        => LET default == ciftify_version(env, NoneV)
           IN  /\ last.out.kind = default.kind
               /\ last.out.exc = default.exc
               /\ last.out.val = default.val
               /\ last.out.log = <<LogCannotFind>> \o default.log
               /\ ~Contains(last.out.val, "Last commit for ")

C7_Witness ==
    /\ Fresh({"ciftify_version"})
    /\ ~last.arg.none
    /\ ~Resolved
    /\ env.headOK
    /\ env.git[ModuleDir] = "commit"
    /\ last.arg.s[1] \in env.tracked
    /\ last.out.kind = "value"
    /\ Len(Split(last.out.val, LF)) = 4

UnameLabels == <<"OS: ", "Hostname: ", "Release: ", "Version: ", "Machine: ">>

\* C8: system_info raises nothing and returns the header "System Info:"
\* followed by the five fields OS, Hostname, Release, Version, Machine in
\* this order, each on an indented line of its own and filled with the
\* element of os.uname() at its position.
C8_SystemInfoShape ==
    Fresh({"system_info"})
        => /\ last.out.kind = "value"
           /\ LET lines == Split(last.out.val, LF)
              IN  /\ Len(lines) = 6
                  /\ lines[1] = <<"System Info:">>
                  /\ \A k \in 1..5 :
                        lines[k + 1] = <<IND, UnameLabels[k], env.uname[k]>>

C8_Witness ==
    /\ Fresh({"system_info"})
    /\ env.uname[3] # env.uname[4]
    /\ env.uname[1] # env.uname[2]
    /\ last.out.kind = "value"

C10_ReportShape ==
    Fresh({"ciftify_version"})
        => LET lines == Split(last.out.val, LF)
               baseOK == env.headOK /\ env.git[ReportDir] \in {"commit", "merge"}
               fileOK == Resolved /\ baseOK /\ last.arg.s[1] \in env.tracked
           IN  /\ last.out.kind = "value"
                     => /\ Len(lines) \in {2, 4, 7}
                        /\ lines[1] = <<"Ciftify:">>
                        /\ Contains(lines[2], "Path: ")
                        /\ Len(lines) >= 4 => Contains(lines[3], "Commit:")
                        /\ Len(lines) = 7 => Contains(lines[6], "Commit:")
               /\ (last.out.kind = "value" /\ Contains(last.out.val, "Last commit for "))
                     => fileOK /\ Len(lines) = 7
               /\ (Resolved /\ baseOK /\ ~fileOK)
                     => last.out.kind = "value" /\ Len(lines) = 4

=============================================================================
